---- MODULE Spec2Model ----
(***************************************************************************)
(* Model of the admin project form (ProjectForm) of the portfolio          *)
(* application: the in-memory image list of one edit session, the legacy   *)
(* single-image field kept next to it, and the asynchronous load, upload   *)
(* and save handlers that read and write them.                             *)
(*                                                                         *)
(* JavaScript strings are sequences of one-character strings, so that      *)
(* trim(), truthiness and String() are computed and not assumed.  A        *)
(* JavaScript value is a record [t, s]: t is the type tag and s the        *)
(* characters of a string (<<>> for the other types).                      *)
(***************************************************************************)
EXTENDS Integers, Sequences, FiniteSets, TLC

\* ---------------------------------------------------------------- bounds
\* longest image_urls array held by a persisted record
MaxDbLen == 3
\* largest number of files selected in one file-input change event
MaxFiles == 2
\* number of objects the storage bucket accepts during one session
MaxUploads == 2

\* most rows the projects table holds
MaxRows == 2

\* ----------------------------------------------------------------- state
VARIABLES
  page,        \* "form" while the component is mounted, else where it went
  isEditing,   \* the route carries an id
  loading,     \* useState: a save is running
  uploading,   \* useState: an upload is running
  imageUrl,    \* useState: the legacy primary image (a JavaScript value)
  imageUrls,   \* useState: the ordered image list
  fetchPc,     \* fetchProject: "none", "pending", "done", "failed"
  up,          \* closure of the running handleImageUpload
  toast,       \* title of the toast the last step showed, "" if none
  nUploads,    \* objects stored in the bucket by this session
  last,        \* the handler step that ran last: its input, the references
               \* it uploaded and the write it issued
  db,          \* the rows of the projects table, in the order a select
               \* returns them
  projects,            \* BrowseProjects useState: the mapped rows
  filteredProjects,    \* BrowseProjects useState: the rows shown
  searchQuery,         \* BrowseProjects useState (characters)
  selectedCategories,  \* BrowseProjects useState: array of category names
  browseLoading,       \* BrowseProjects useState loading
  portfolioProjects,   \* Portfolio useState projects
  portfolioLoading,    \* Portfolio useState loading
  id,                  \* ProjectDetails: the route parameter, a row number
  project,             \* ProjectDetails useState: NoProject or the project
  detailsLoading,      \* ProjectDetails useState loading
  currentImageIndex,   \* ProjectDetails useState
  route,               \* where ProjectDetails is: "details" or the path it
                       \* navigated to
  fields               \* ProjectForm useState title, description,
                       \* technologies: the trimmed length of each, as
                       \* typed in a create session

\* the state of ProjectForm
formVars == <<page, isEditing, loading, uploading, imageUrl, imageUrls,
              fetchPc, up, nUploads, fields>>

\* the state of the public pages and of the table they read
pubVars == <<db, projects, filteredProjects, searchQuery, selectedCategories,
             browseLoading, portfolioProjects, portfolioLoading, id, project,
             detailsLoading, currentImageIndex, route>>

vars == <<page, isEditing, loading, uploading, imageUrl, imageUrls, fetchPc,
          up, toast, nUploads, last, db, projects, filteredProjects,
          searchQuery, selectedCategories, browseLoading, portfolioProjects,
          portfolioLoading, id, project, detailsLoading, currentImageIndex,
          route, fields>>

\* ------------------------------------------------------ JavaScript values
Str(s) == [t |-> "string", s |-> s]
Null == [t |-> "null", s |-> <<>>]
Undefined == [t |-> "undefined", s |-> <<>>]
EmptyString == Str(<<>>)

Whitespace == {" "}

RECURSIVE TrimStart(_)
TrimStart(s) ==
  IF s # <<>> /\ Head(s) \in Whitespace THEN TrimStart(Tail(s)) ELSE s

RECURSIVE TrimEnd(_)
TrimEnd(s) ==
  IF s # <<>> /\ s[Len(s)] \in Whitespace
    THEN TrimEnd(SubSeq(s, 1, Len(s) - 1))
    ELSE s

\* String.prototype.trim
Trim(s) == TrimEnd(TrimStart(s))

\* ToBoolean: null, undefined and '' are falsy, every other string truthy
Truthy(v) == v.t = "string" /\ v.s # <<>>

\* String(v)
JSString(v) ==
  CASE v.t = "string" -> v
    [] v.t = "null" -> Str(<<"n", "u", "l", "l">>)
    [] OTHER -> Str(<<"u", "n", "d", "e", "f", "i", "n", "e", "d">>)

\* a || b
JSOr(a, b) == IF Truthy(a) THEN a ELSE b

\* list.map(String)
MapString(list) == [i \in 1..Len(list) |-> JSString(list[i])]

\* ------------------------------------------------------ persisted records
\* strings a persisted record may hold
DbStrings == {<<>>, <<" ">>, <<"a">>, <<"b">>}

\* image_url is a TEXT column: null or a string
DbImageUrl == {Null} \cup {Str(s) : s \in DbStrings}

\* an element of a JSONB array: a string or null
DbElement == {Null} \cup {Str(s) : s \in DbStrings}

SeqUpTo(S, n) == UNION {[1..k -> S] : k \in 0..n}

\* image_urls is a JSONB column added by a later migration: the column may
\* be missing (undefined), null, a JSON value that is not an array, or an array
DbImageUrls ==
  {[kind |-> k, items |-> <<>>] : k \in {"undefined", "null", "object"}}
    \cup {[kind |-> "array", items |-> l] : l \in SeqUpTo(DbElement, MaxDbLen)}

Records == [image_url : DbImageUrl, image_urls : DbImageUrls]

\* the records an edit session is opened on: no list or the list [a], next
\* to no legacy image, a blank one, the list's entry or another reference
SessionRecords ==
  [image_url : {Null, Str(<<" ">>), Str(<<"a">>), Str(<<"b">>)},
   image_urls : {[kind |-> "null", items |-> <<>>],
                 [kind |-> "array", items |-> <<Str(<<"a">>)>>]}]

\* records whose list holds the same reference twice, with a blank entry
\* between the two or without, and a record with a blank legacy image only
RepeatRecords ==
  {[image_url |-> Str(<<"a">>),
    image_urls |-> [kind |-> "array",
                    items |-> <<Str(<<"a">>), Str(<<"a">>)>>]],
   [image_url |-> Str(<<"a">>),
    image_urls |-> [kind |-> "array",
                    items |-> <<Str(<<"a">>), Str(<<" ">>), Str(<<"a">>)>>]],
   [image_url |-> Str(<<" ">>),
    image_urls |-> [kind |-> "null", items |-> <<>>]]}

NoData == [image_url |-> Null, image_urls |-> [kind |-> "undefined", items |-> <<>>]]

\* Array.isArray(x)
IsArray(x) == x.kind = "array"

\* ToBoolean of the image_urls value: objects and arrays are truthy
TruthyJson(x) == x.kind \in {"object", "array"}

\* --------------------------------------------------------- pure handlers
Min(a, b) == IF a < b THEN a ELSE b
Max(a, b) == IF a > b THEN a ELSE b

\* the filter keeps every truthy entry: no trim
LoadUrlsNoTrim(data) ==
  IF TruthyJson(data.image_urls) /\ IsArray(data.image_urls)
       /\ Len(data.image_urls.items) > 0
    THEN SelectSeq(MapString(data.image_urls.items), Truthy)
    ELSE IF Truthy(data.image_url) /\ Trim(data.image_url.s) # <<>>
      THEN <<data.image_url>>
      ELSE <<>>

\* the legacy image_url is not consulted
LoadUrlsNoFallback(data) ==
  IF TruthyJson(data.image_urls) /\ IsArray(data.image_urls)
       /\ Len(data.image_urls.items) > 0
    THEN SelectSeq(MapString(data.image_urls.items),
                   LAMBDA url : Truthy(url) /\ Trim(url.s) # <<>>)
    ELSE <<>>

\* the legacy image_url is wrapped whenever it is truthy: no trim
LoadUrlsBlankLegacy(data) ==
  IF TruthyJson(data.image_urls) /\ IsArray(data.image_urls)
       /\ Len(data.image_urls.items) > 0
    THEN SelectSeq(MapString(data.image_urls.items),
                   LAMBDA url : Truthy(url) /\ Trim(url.s) # <<>>)
    ELSE IF Truthy(data.image_url)
      THEN <<data.image_url>>
      ELSE <<>>

\* the list is built in the reverse of the persisted order
LoadUrlsReversed(data) ==
  LET urls == IF TruthyJson(data.image_urls) /\ IsArray(data.image_urls)
                   /\ Len(data.image_urls.items) > 0
                THEN SelectSeq(MapString(data.image_urls.items),
                               LAMBDA url : Truthy(url) /\ Trim(url.s) # <<>>)
                ELSE IF Truthy(data.image_url) /\ Trim(data.image_url.s) # <<>>
                  THEN <<data.image_url>>
                  ELSE <<>>
  IN [i \in 1..Len(urls) |-> urls[Len(urls) + 1 - i]]

\* fetchProject: the list built from the record that was read
LoadUrls(data) ==
  IF TruthyJson(data.image_urls) /\ IsArray(data.image_urls)
       /\ Len(data.image_urls.items) > 0
    THEN SelectSeq(MapString(data.image_urls.items),
                   LAMBDA url : Truthy(url) /\ Trim(url.s) # <<>>)
    ELSE IF Truthy(data.image_url) /\ Trim(data.image_url.s) # <<>>
      THEN <<data.image_url>>
      ELSE <<>>

\* x.length throws a TypeError on null and undefined
LengthThrows(x) == x.kind \in {"undefined", "null"}

\* x.map(...) throws a TypeError unless x is an array
MapThrows(x) == ~IsArray(x)

\* v.trim() throws a TypeError unless v is a string
TrimThrows(v) == v.t # "string"

\* the guards of fetchProject dropped: .length and .map read unconditionally
LoadThrowsUnguarded(data) ==
  LengthThrows(data.image_urls) \/ MapThrows(data.image_urls)

\* fetchProject: does building the list throw?  .length and .map are read
\* behind the truthiness and Array.isArray tests of image_urls, .trim behind
\* the truthiness test of image_url
LoadThrows(data) ==
  LET x == data.image_urls
  IN IF TruthyJson(x) /\ IsArray(x)
       THEN LengthThrows(x) \/ (Len(x.items) > 0 /\ MapThrows(x))
       ELSE Truthy(data.image_url) /\ TrimThrows(data.image_url)

\* fetchProject: setImageUrl(data.image_url || '')
LoadImageUrl(data) == JSOr(data.image_url, EmptyString)

\* the filter compares with the position counted from 1
RemoveAtOffByOne(list, index) ==
  LET keep == {i \in 1..Len(list) : i # index}
      pos(k) == CHOOSE i \in keep : Cardinality({j \in keep : j < i}) = k - 1
  IN [k \in 1..Cardinality(keep) |-> list[pos(k)]]

\* a negative index counts from the end of the list, as splice does
RemoveAtFromEnd(list, index) ==
  LET at == IF index < 0 THEN Len(list) + index ELSE index
      keep == {i \in 1..Len(list) : i - 1 # at}
      pos(k) == CHOOSE i \in keep : Cardinality({j \in keep : j < i}) = k - 1
  IN [k \in 1..Cardinality(keep) |-> list[pos(k)]]

\* imageUrls.filter((_, i) => i !== index), index counted from 0
RemoveAt(list, index) ==
  LET keep == {i \in 1..Len(list) : i - 1 # index}
      pos(k) == CHOOSE i \in keep : Cardinality({j \in keep : j < i}) = k - 1
  IN [k \in 1..Cardinality(keep) |-> list[pos(k)]]

\* the primary image is taken from the list before the removal
RemoveImageKeepsMain(list, index) ==
  LET newUrls == RemoveAt(list, index)
  IN [imageUrls |-> newUrls,
      imageUrl |-> IF Len(newUrls) > 0 THEN list[1] ELSE EmptyString]

\* handleRemoveImage: the list and the primary image it sets
RemoveImage(list, index) ==
  LET newUrls == RemoveAt(list, index)
  IN [imageUrls |-> newUrls,
      imageUrl |-> IF Len(newUrls) > 0 THEN newUrls[1] ELSE EmptyString]

\* newUrls.splice(index, 1): the removed elements and what is left
Splice1(list, index) ==
  LET len == Len(list)
      start == IF index < 0 THEN Max(len + index, 0) ELSE Min(index, len)
      cnt == Min(1, len - start)
  IN [removed |-> SubSeq(list, start + 1, start + cnt),
      rest |-> SubSeq(list, 1, start) \o SubSeq(list, start + cnt + 1, len)]

\* the chosen image and the first one change places
SetMainImageSwap(list, url, index) ==
  IF index = 0 \/ index >= Len(list)
    THEN [imageUrls |-> list, imageUrl |-> url, toast |-> FALSE]
    ELSE [imageUrls |-> [k \in 1..Len(list) |->
                          IF k = 1 THEN list[index + 1]
                          ELSE IF k = index + 1 THEN list[1]
                          ELSE list[k]],
          imageUrl |-> list[index + 1], toast |-> TRUE]

\* no early return on index 0
SetMainImageNoEarlyReturn(list, url, index) ==
  LET sp == Splice1(list, index)
      mainImage == IF sp.removed # <<>> THEN sp.removed[1] ELSE Undefined
  IN [imageUrls |-> <<mainImage>> \o sp.rest, imageUrl |-> mainImage,
      toast |-> TRUE]

\* handleSetMainImage: early return on index 0, else splice, unshift,
\* setImageUrl and the success toast
SetMainImage(list, url, index) ==
  LET sp == Splice1(list, index)
      mainImage == IF sp.removed # <<>> THEN sp.removed[1] ELSE Undefined
  IN IF index = 0
       THEN [imageUrls |-> list, imageUrl |-> url, toast |-> FALSE]
       ELSE [imageUrls |-> <<mainImage>> \o sp.rest, imageUrl |-> mainImage,
             toast |-> TRUE]

\* image_url written from the imageUrl state: imageUrl || null
ProjectDataFromImageUrl(list) ==
  [image_url |-> JSOr(imageUrl, Null), image_urls |-> list]

\* handleSubmit: the two image fields of projectData
ProjectData(list) ==
  [image_url |-> IF Len(list) > 0 THEN list[1] ELSE Null,
   image_urls |-> list]

\* the write carries image_url only, image_urls is left out
WriteLegacyOnly(editing, list) ==
  [method |-> IF editing THEN "update" ELSE "insert",
   projectData |-> [image_url |-> ProjectData(list).image_url]]

\* handleSubmit: the write it issues, update(projectData) or insert([projectData])
Write(editing, list) ==
  [method |-> IF editing THEN "update" ELSE "insert",
   projectData |-> ProjectData(list)]

NoWrite ==
  [method |-> "none",
   projectData |-> [image_url |-> Undefined, image_urls |-> <<>>]]

\* ------------------------------------------------------------ file input
validTypes == {"image/jpeg", "image/png", "image/webp", "image/gif"}
maxSize == 5242880

FileTypes == {"image/jpeg", "image/gif", "application/pdf"}
FileSizes == {maxSize, maxSize + 1}
Files == [type : FileTypes, size : FileSizes]
FileLists == SeqUpTo(Files, MaxFiles)

\* only files[0] is validated
ValidateFirstOnly(files) ==
  IF files = <<>> THEN "ok"
  ELSE IF Head(files).type \notin validTypes THEN "Invalid file type"
  ELSE IF Head(files).size > maxSize THEN "File too large"
  ELSE "ok"

\* the validation loop of handleImageUpload: the toast of the first bad file
RECURSIVE ValidateFiles(_)
ValidateFiles(files) ==
  IF files = <<>> THEN "ok"
  ELSE IF Head(files).type \notin validTypes THEN "Invalid file type"
  ELSE IF Head(files).size > maxSize THEN "File too large"
  ELSE ValidateFiles(Tail(files))

\* the validation loop of handleImageUpload: the value of i when it returns,
\* files.length when it runs to its end
RECURSIVE RejectedAt(_)
RejectedAt(files) ==
  IF files = <<>> THEN 0
  ELSE IF Head(files).type \notin validTypes \/ Head(files).size > maxSize
    THEN 0
    ELSE 1 + RejectedAt(Tail(files))

\* titles of the toasts shown with variant "destructive"
destructive == {"Error", "Invalid file type", "File too large",
                "Upload failed", "Validation Error"}

\* publicUrl of the k-th object stored in the bucket (random file names)
PublicUrl(k) == Str(<<"u">> \o [i \in 1..k |-> "x"])

\* ------------------------------------------------------------ form input
\* a text field is represented by the length of its trimmed value
FormInputs == [title : {0, 100, 101}, description : {1, 5001},
               technologies : {0, 1}]

\* useState("") of title, description and technologies
NoFields == [title |-> 0, description |-> 0, technologies |-> 0]

\* projectSchema.safeParse(...).success
SchemaOk(form) ==
  /\ form.title >= 1 /\ form.title <= 100
  /\ form.description >= 1 /\ form.description <= 5000
  /\ form.technologies >= 1

\* ------------------------------------------------------- initial state
\* useState<ProjectDetails | null>(null)
NoProject == [null |-> TRUE]

NoUpload == [imageUrls |-> <<>>, imageUrl |-> EmptyString, files |-> 0,
             uploadedUrls |-> <<>>]
Step(op, index, data, uploaded) ==
  [op |-> op, index |-> index, data |-> data, uploaded |-> uploaded,
   write |-> NoWrite]

\* no public page is open and the table is not looked at
PublicIdle ==
  /\ db = <<>>
  /\ projects = <<>>
  /\ filteredProjects = <<>>
  /\ searchQuery = <<>>
  /\ selectedCategories = <<>>
  /\ browseLoading = FALSE
  /\ portfolioProjects = <<>>
  /\ portfolioLoading = FALSE
  /\ id = 0
  /\ project = NoProject
  /\ detailsLoading = FALSE
  /\ currentImageIndex = 0
  /\ route = "none"

Init ==
  /\ page = "form"
  /\ isEditing \in BOOLEAN
  /\ loading = FALSE
  /\ uploading = FALSE
  /\ imageUrl = EmptyString
  /\ imageUrls = <<>>
  /\ fetchPc = IF isEditing THEN "pending" ELSE "none"
  /\ up = NoUpload
  /\ toast = ""
  /\ nUploads = 0
  /\ last = Step("mount", 0, NoData, <<>>)
  /\ fields = NoFields
  /\ PublicIdle

\* --------------------------------------------------------------- actions
\* fetchProject, the read succeeded: the fields are set from the record; an
\* exception thrown on the way is caught like a failed read
fetchProject(data) ==
  /\ page = "form"
  /\ fetchPc = "pending"
  /\ IF LoadThrows(data)
       THEN /\ fetchPc' = "failed"
            /\ toast' = "Error"
            /\ page' = "dashboard"
            /\ last' = Step("fetchProject.catch", 0, data, <<>>)
            /\ UNCHANGED <<imageUrl, imageUrls>>
       ELSE /\ fetchPc' = "done"
            /\ imageUrl' = LoadImageUrl(data)
            /\ imageUrls' = LoadUrls(data)
            /\ toast' = ""
            /\ last' = Step("fetchProject", 0, data, <<>>)
            /\ UNCHANGED page
  /\ UNCHANGED <<isEditing, loading, uploading, up, nUploads>>
  /\ UNCHANGED <<fields, pubVars>>

\* fetchProject, the read failed: toast and leave for the dashboard
fetchProjectError ==
  /\ page = "form"
  /\ fetchPc = "pending"
  /\ fetchPc' = "failed"
  /\ toast' = "Error"
  /\ page' = "dashboard"
  /\ last' = Step("fetchProject.error", 0, NoData, <<>>)
  /\ UNCHANGED <<isEditing, loading, uploading, imageUrl, imageUrls, up,
                 nUploads>>
  /\ UNCHANGED <<fields, pubVars>>

\* handleImageUpload up to its first await: nothing selected, a file
\* rejected by the validation loop, or the upload loop is entered
handleImageUpload(files) ==
  /\ page = "form"
  /\ ~uploading
  /\ LET verdict == ValidateFiles(files)
     IN IF Len(files) = 0
          THEN /\ last' = Step("handleImageUpload.empty", 0, NoData, <<>>)
               /\ toast' = ""
               /\ UNCHANGED <<uploading, up>>
          ELSE IF verdict # "ok"
            THEN /\ toast' = verdict
                 /\ last' = Step("handleImageUpload.rejected",
                                 RejectedAt(files), NoData, <<>>)
                 /\ UNCHANGED <<uploading, up>>
            ELSE /\ uploading' = TRUE
                 /\ up' = [imageUrls |-> imageUrls, imageUrl |-> imageUrl,
                           files |-> Len(files), uploadedUrls |-> <<>>]
                 /\ last' = Step("handleImageUpload.start",
                                 RejectedAt(files), NoData, <<>>)
                 /\ toast' = ""
  /\ UNCHANGED <<page, isEditing, loading, imageUrl, imageUrls, fetchPc,
                 nUploads>>
  /\ UNCHANGED <<fields, pubVars>>

\* one pass of the upload loop succeeds and more files remain
uploadNext ==
  /\ page = "form"
  /\ uploading
  /\ nUploads < MaxUploads
  /\ Len(up.uploadedUrls) + 1 < up.files
  /\ nUploads' = nUploads + 1
  /\ up' = [up EXCEPT !.uploadedUrls = Append(@, PublicUrl(nUploads + 1))]
  /\ toast' = ""
  /\ last' = Step("handleImageUpload.next", 0, NoData, up'.uploadedUrls)
  /\ UNCHANGED <<page, isEditing, loading, uploading, imageUrl, imageUrls,
                 fetchPc>>
  /\ UNCHANGED <<fields, pubVars>>

\* the new references are appended in the reverse of their arrival order
uploadDoneReversed ==
  /\ page = "form"
  /\ uploading
  /\ nUploads < MaxUploads
  /\ Len(up.uploadedUrls) + 1 = up.files
  /\ LET uploadedUrls == Append(up.uploadedUrls, PublicUrl(nUploads + 1))
     IN /\ imageUrls' = up.imageUrls \o
             [k \in 1..Len(uploadedUrls) |->
                uploadedUrls[Len(uploadedUrls) + 1 - k]]
        /\ imageUrl' = IF ~Truthy(up.imageUrl) /\ Len(uploadedUrls) > 0
                         THEN uploadedUrls[1]
                         ELSE imageUrl
        /\ last' = Step("handleImageUpload.done", 0, NoData, uploadedUrls)
  /\ nUploads' = nUploads + 1
  /\ toast' = "Success"
  /\ uploading' = FALSE
  /\ up' = NoUpload
  /\ UNCHANGED <<page, isEditing, loading, fetchPc>>
  /\ UNCHANGED <<fields, pubVars>>

\* the new references are put in front of the captured list
uploadDonePrepends ==
  /\ page = "form"
  /\ uploading
  /\ nUploads < MaxUploads
  /\ Len(up.uploadedUrls) + 1 = up.files
  /\ LET uploadedUrls == Append(up.uploadedUrls, PublicUrl(nUploads + 1))
     IN /\ imageUrls' = uploadedUrls \o up.imageUrls
        /\ imageUrl' = IF ~Truthy(up.imageUrl) /\ Len(uploadedUrls) > 0
                         THEN uploadedUrls[1]
                         ELSE imageUrl
        /\ last' = Step("handleImageUpload.done", 0, NoData, uploadedUrls)
  /\ nUploads' = nUploads + 1
  /\ toast' = "Success"
  /\ uploading' = FALSE
  /\ up' = NoUpload
  /\ UNCHANGED <<page, isEditing, loading, fetchPc>>
  /\ UNCHANGED <<fields, pubVars>>

\* the last pass of the upload loop succeeds: the captured list and the new
\* references are set, the primary image is set if the captured one is empty
uploadDone ==
  /\ page = "form"
  /\ uploading
  /\ nUploads < MaxUploads
  /\ Len(up.uploadedUrls) + 1 = up.files
  /\ LET uploadedUrls == Append(up.uploadedUrls, PublicUrl(nUploads + 1))
     IN /\ imageUrls' = up.imageUrls \o uploadedUrls
        /\ imageUrl' = IF ~Truthy(up.imageUrl) /\ Len(uploadedUrls) > 0
                         THEN uploadedUrls[1]
                         ELSE imageUrl
        /\ last' = Step("handleImageUpload.done", 0, NoData, uploadedUrls)
  /\ nUploads' = nUploads + 1
  /\ toast' = "Success"
  /\ uploading' = FALSE
  /\ up' = NoUpload
  /\ UNCHANGED <<page, isEditing, loading, fetchPc>>
  /\ UNCHANGED <<fields, pubVars>>

\* the catch block runs but the finally block does not: the flag stays set
uploadErrorNoFinally ==
  /\ page = "form"
  /\ uploading
  /\ toast' = "Upload failed"
  /\ up' = NoUpload
  /\ last' = Step("handleImageUpload.error", 0, NoData, up.uploadedUrls)
  /\ UNCHANGED <<page, isEditing, loading, uploading, imageUrl, imageUrls,
                 fetchPc, nUploads>>
  /\ UNCHANGED <<fields, pubVars>>

\* the references uploaded before the failure are kept in the list
uploadErrorKeepsUploaded ==
  /\ page = "form"
  /\ uploading
  /\ toast' = "Upload failed"
  /\ uploading' = FALSE
  /\ up' = NoUpload
  /\ imageUrls' = imageUrls \o up.uploadedUrls
  /\ last' = Step("handleImageUpload.error", 0, NoData, up.uploadedUrls)
  /\ UNCHANGED <<page, isEditing, loading, imageUrl, fetchPc, nUploads>>
  /\ UNCHANGED <<fields, pubVars>>

\* the failed pass is run again: the loop goes on after the toast
uploadErrorRetries ==
  /\ page = "form"
  /\ uploading
  /\ toast' = "Upload failed"
  /\ last' = Step("handleImageUpload.error", 0, NoData, up.uploadedUrls)
  /\ UNCHANGED <<page, isEditing, loading, uploading, up, imageUrl,
                 imageUrls, fetchPc, nUploads>>
  /\ UNCHANGED <<fields, pubVars>>

\* a pass of the upload loop fails: catch shows the toast, finally resets
uploadError ==
  /\ page = "form"
  /\ uploading
  /\ toast' = "Upload failed"
  /\ uploading' = FALSE
  /\ up' = NoUpload
  /\ last' = Step("handleImageUpload.error", 0, NoData, up.uploadedUrls)
  /\ UNCHANGED <<page, isEditing, loading, imageUrl, imageUrls, fetchPc,
                 nUploads>>
  /\ UNCHANGED <<fields, pubVars>>

\* the delete button of the image rendered at index
handleRemoveImage(index) ==
  /\ page = "form"
  /\ index \in 0..(Len(imageUrls) - 1)
  /\ LET r == RemoveImage(imageUrls, index)
     IN /\ imageUrls' = r.imageUrls
        /\ imageUrl' = r.imageUrl
  /\ toast' = ""
  /\ last' = Step("handleRemoveImage", index, NoData, <<>>)
  /\ UNCHANGED <<page, isEditing, loading, uploading, fetchPc, up,
                 nUploads>>
  /\ UNCHANGED <<fields, pubVars>>

\* the "Set as Main" button, rendered for every index but 0
handleSetMainImage(index) ==
  /\ page = "form"
  /\ index \in 1..(Len(imageUrls) - 1)
  /\ LET r == SetMainImage(imageUrls, imageUrl, index)
     IN /\ imageUrls' = r.imageUrls
        /\ imageUrl' = r.imageUrl
        /\ toast' = IF r.toast THEN "Success" ELSE ""
  /\ last' = Step("handleSetMainImage", index, NoData, <<>>)
  /\ UNCHANGED <<page, isEditing, loading, uploading, fetchPc, up,
                 nUploads>>
  /\ UNCHANGED <<fields, pubVars>>

\* handleSubmit up to its await; the submit button is disabled while
\* loading or uploading
handleSubmit(form) ==
  /\ page = "form"
  /\ ~loading /\ ~uploading
  /\ IF ~SchemaOk(form)
       THEN /\ toast' = "Validation Error"
            /\ last' = Step("handleSubmit.invalid", 0, NoData, <<>>)
            /\ UNCHANGED loading
       ELSE /\ loading' = TRUE
            /\ last' = [Step("handleSubmit.write", 0, NoData, <<>>)
                          EXCEPT !.write = Write(isEditing, imageUrls)]
            /\ toast' = ""
  /\ UNCHANGED <<page, isEditing, uploading, imageUrl, imageUrls, fetchPc, up,
                 nUploads>>
  /\ UNCHANGED <<fields, pubVars>>

\* the write succeeded: toast, navigate, finally
submitDone ==
  /\ page = "form"
  /\ loading
  /\ toast' = "Success"
  /\ page' = "dashboard"
  /\ loading' = FALSE
  /\ last' = Step("handleSubmit.done", 0, NoData, <<>>)
  /\ UNCHANGED <<isEditing, uploading, imageUrl, imageUrls, fetchPc, up,
                 nUploads>>
  /\ UNCHANGED <<fields, pubVars>>

\* the catch block leaves the form, as the catch of fetchProject does
submitErrorNavigates ==
  /\ page = "form"
  /\ loading
  /\ toast' = "Error"
  /\ page' = "dashboard"
  /\ loading' = FALSE
  /\ last' = Step("handleSubmit.error", 0, NoData, <<>>)
  /\ UNCHANGED <<isEditing, uploading, imageUrl, imageUrls, fetchPc, up,
                 nUploads>>
  /\ UNCHANGED <<fields, pubVars>>

\* the write failed: toast, finally; the form stays
submitError ==
  /\ page = "form"
  /\ loading
  /\ toast' = "Error"
  /\ loading' = FALSE
  /\ last' = Step("handleSubmit.error", 0, NoData, <<>>)
  /\ UNCHANGED <<page, isEditing, uploading, imageUrl, imageUrls, fetchPc, up,
                 nUploads>>
  /\ UNCHANGED <<fields, pubVars>>

Next ==
  \/ \E data \in SessionRecords : fetchProject(data)
  \/ fetchProjectError
  \/ \E files \in FileLists : handleImageUpload(files)
  \/ uploadNext
  \/ uploadDone
  \/ uploadError
  \/ \E index \in 0..(Len(imageUrls) - 1) : handleRemoveImage(index)
  \/ \E index \in 1..(Len(imageUrls) - 1) : handleSetMainImage(index)
  \/ \E form \in FormInputs : handleSubmit(form)
  \/ submitDone
  \/ submitError

Spec == Init /\ [][Next]_vars

\* the handlers that set a busy flag, and the load
NextFair ==
  \/ \E data \in SessionRecords : fetchProject(data)
  \/ fetchProjectError
  \/ \E files \in FileLists : handleImageUpload(files)
  \/ uploadNext
  \/ uploadDone
  \/ uploadError
  \/ \E form \in FormInputs : handleSubmit(form)
  \/ submitDone
  \/ submitError

\* every awaited storage call and every awaited write settles: the handler
\* that awaits it goes on to its try, catch and finally blocks
SpecFair ==
  /\ Init
  /\ [][NextFair]_vars
  /\ WF_vars(uploadNext \/ uploadDone \/ uploadError)
  /\ WF_vars(submitDone \/ submitError)

\* handleRemoveImage called as a function, with any index
callRemoveImage(index) ==
  /\ page = "form"
  /\ LET r == RemoveImage(imageUrls, index)
     IN /\ imageUrls' = r.imageUrls
        /\ imageUrl' = r.imageUrl
  /\ toast' = ""
  /\ last' = Step("handleRemoveImage", index, NoData, <<>>)
  /\ UNCHANGED <<page, isEditing, loading, uploading, fetchPc, up,
                 nUploads>>
  /\ UNCHANGED <<fields, pubVars>>

\* handleSetMainImage called as a function, with any index; an index out of
\* range makes the list one longer, which the length guard caps
callSetMainImage(index) ==
  /\ page = "form"
  /\ Len(imageUrls) <= MaxDbLen
  /\ LET r == SetMainImage(imageUrls, imageUrl, index)
     IN /\ imageUrls' = r.imageUrls
        /\ imageUrl' = r.imageUrl
        /\ toast' = IF r.toast THEN "Success" ELSE ""
  /\ last' = Step("handleSetMainImage", index, NoData, <<>>)
  /\ UNCHANGED <<page, isEditing, loading, uploading, fetchPc, up,
                 nUploads>>
  /\ UNCHANGED <<fields, pubVars>>

\* the indexes the two handlers are called with: in range and out of range
CallIndexes == (0 - 2)..(MaxDbLen + 2)

\* the list handlers called directly on every list a load produces
NextCalls ==
  \/ \E data \in Records : fetchProject(data)
  \/ fetchProjectError
  \/ \E index \in CallIndexes : callRemoveImage(index)
  \/ \E index \in CallIndexes : callSetMainImage(index)

SpecCalls == Init /\ [][NextCalls]_vars

\* the handlers that read or change the list, in a session opened on a record
\* with a repeated reference
NextImages ==
  \/ \E data \in RepeatRecords : fetchProject(data)
  \/ \E files \in FileLists : handleImageUpload(files)
  \/ uploadNext
  \/ uploadDone
  \/ uploadError
  \/ \E index \in 0..(Len(imageUrls) - 1) : handleRemoveImage(index)
  \/ \E index \in 1..(Len(imageUrls) - 1) : handleSetMainImage(index)

SpecImages == Init /\ [][NextImages]_vars

\* the load alone, over every persisted record
NextLoad ==
  \/ \E data \in Records : fetchProject(data)
  \/ fetchProjectError

SpecLoad == Init /\ [][NextLoad]_vars

\* the row a later select('*') reads after update(projectData) or
\* insert([projectData]): image_url in the TEXT column, the list as a JSON
\* array of strings in the JSONB column
Persisted(projectData) ==
  [image_url |-> projectData.image_url,
   image_urls |-> [kind |-> "array", items |-> projectData.image_urls]]

\* an edit session that loads any persisted record and saves it, with no
\* change of the list in between
NextRoundTrip ==
  \/ \E data \in Records : fetchProject(data)
  \/ fetchProjectError
  \/ \E form \in FormInputs : handleSubmit(form)
  \/ submitDone
  \/ submitError

SpecRoundTrip == Init /\ [][NextRoundTrip]_vars


\* onChange of the title input
setTitle(value) ==
  /\ page = "form"
  /\ fields' = [fields EXCEPT !.title = value]
  /\ toast' = ""
  /\ last' = Step("setTitle", 0, NoData, <<>>)
  /\ UNCHANGED <<page, isEditing, loading, uploading, imageUrl, imageUrls,
                 fetchPc, up, nUploads>>
  /\ UNCHANGED pubVars

\* onChange of the description textarea
setDescription(value) ==
  /\ page = "form"
  /\ fields' = [fields EXCEPT !.description = value]
  /\ toast' = ""
  /\ last' = Step("setDescription", 0, NoData, <<>>)
  /\ UNCHANGED <<page, isEditing, loading, uploading, imageUrl, imageUrls,
                 fetchPc, up, nUploads>>
  /\ UNCHANGED pubVars

\* onChange of the technologies input
setTechnologies(value) ==
  /\ page = "form"
  /\ fields' = [fields EXCEPT !.technologies = value]
  /\ toast' = ""
  /\ last' = Step("setTechnologies", 0, NoData, <<>>)
  /\ UNCHANGED <<page, isEditing, loading, uploading, imageUrl, imageUrls,
                 fetchPc, up, nUploads>>
  /\ UNCHANGED pubVars

\* the form of a new project (no id in the route, nothing is fetched)
InitSave == Init /\ ~isEditing

\* a create session: the text fields are typed, images are uploaded, the
\* form is submitted with the fields as they are
NextSave ==
  \/ \E form \in FormInputs : setTitle(form.title)
  \/ \E form \in FormInputs : setDescription(form.description)
  \/ \E form \in FormInputs : setTechnologies(form.technologies)
  \/ \E files \in FileLists : handleImageUpload(files)
  \/ uploadNext
  \/ uploadDone
  \/ uploadError
  \/ handleSubmit(fields)
  \/ submitDone
  \/ submitError

SpecSave == InitSave /\ [][NextSave]_vars

\* ---------------------------------------------------------- public pages
\* the letters toLowerCase() changes, among the characters in use
UpperCaseLetters == <<"A", "B", "D", "M", "W">>
LowerCaseLetters == <<"a", "b", "d", "m", "w">>

\* s.toLowerCase()
ToLowerCase(s) ==
  [i \in 1..Len(s) |->
     IF \E k \in 1..Len(UpperCaseLetters) : UpperCaseLetters[k] = s[i]
       THEN LowerCaseLetters[CHOOSE k \in 1..Len(UpperCaseLetters) :
                               UpperCaseLetters[k] = s[i]]
       ELSE s[i]]

\* s.includes(q)
Includes(s, q) ==
  \E i \in 0..(Len(s) - Len(q)) : SubSeq(s, i + 1, i + Len(q)) = q

\* two of the names of PROJECT_CATEGORIES
WebDevelopment ==
  <<"W", "e", "b", " ", "D", "e", "v", "e", "l", "o", "p", "m", "e", "n", "t">>
MobileApp == <<"M", "o", "b", "i", "l", "e", " ", "A", "p", "p">>

\* the category buttons the sidebar renders (two of them)
Categories == {Str(WebDevelopment), Str(MobileApp)}

\* a row of the projects table, without images
Row(title, description, technologies, category, published) ==
  [title |-> Str(title), description |-> Str(description),
   technologies |-> technologies, category |-> category,
   published |-> published, image_url |-> Null,
   image_urls |-> [kind |-> "null", items |-> <<>>]]

\* the technologies column: JSONB, something else than an array or an array
NoTechnologies == [kind |-> "object", items |-> <<>>]
Technologies(items) == [kind |-> "array", items |-> items]

\* rows as the browse page reads them: "Ab" is in the title, in the
\* description, in a technology or nowhere; the category is absent, empty
\* or a name; one row is a draft
BrowseRows ==
  {Row(<<"A", "b">>, <<"x">>, NoTechnologies, Null, TRUE),
   Row(<<"x">>, <<"A", "b">>, Technologies(<<>>), Str(MobileApp), TRUE),
   Row(<<"x">>, <<"x">>, Technologies(<<Str(<<"y">>), Str(<<"A", "b">>)>>),
       Null, TRUE),
   Row(<<"x">>, <<"x">>, NoTechnologies, EmptyString, TRUE),
   Row(<<"A", "b">>, <<"x">>, NoTechnologies, Str(MobileApp), FALSE)}

\* what the search box holds
Queries == {<<>>, <<" ">>, <<"a", "b">>, <<"A", "B">>, <<"b", " ">>,
            <<"m", "o", "b">>, <<"w", "e", "b">>}

\* the select returns every row: .eq('published', true) left out
PublishedIdsAll(rows) == [k \in 1..Len(rows) |-> k]

\* .eq('published', true): the numbers of the published rows, in the order
\* of the select
PublishedIds(rows) ==
  SelectSeq([k \in 1..Len(rows) |-> k], LAMBDA k : rows[k].published)

\* fetchProjects: the project mapped from row k
MapProject(rows, k) ==
  [id |-> k,
   title |-> rows[k].title,
   description |-> rows[k].description,
   technologies |-> IF IsArray(rows[k].technologies)
                      THEN MapString(rows[k].technologies.items)
                      ELSE <<>>,
   image_url |-> rows[k].image_url,
   category |-> JSOr(rows[k].category, Str(WebDevelopment))]

\* fetchProjects: mappedProjects
MappedProjects(rows) ==
  [i \in 1..Len(PublishedIds(rows)) |-> MapProject(rows, PublishedIds(rows)[i])]

\* the search looks at the title only
FilterProjectsTitleOnly(list, categories, query) ==
  LET byCategory ==
        IF Len(categories) > 0
          THEN SelectSeq(list, LAMBDA p :
                 \E i \in 1..Len(categories) :
                   categories[i] = JSOr(p.category, Str(WebDevelopment)))
          ELSE list
      q == ToLowerCase(query)
  IN IF Trim(query) # <<>>
       THEN SelectSeq(byCategory, LAMBDA p :
              Includes(ToLowerCase(p.title.s), q))
       ELSE byCategory

\* the filter effect of BrowseProjects: the value it sets filteredProjects to
FilterProjects(list, categories, query) ==
  LET byCategory ==
        IF Len(categories) > 0
          THEN SelectSeq(list, LAMBDA p :
                 \E i \in 1..Len(categories) :
                   categories[i] = JSOr(p.category, Str(WebDevelopment)))
          ELSE list
      q == ToLowerCase(query)
  IN IF Trim(query) # <<>>
       THEN SelectSeq(byCategory, LAMBDA p :
              \/ Includes(ToLowerCase(p.title.s), q)
              \/ Includes(ToLowerCase(p.description.s), q)
              \/ \E i \in 1..Len(p.technologies) :
                   Includes(ToLowerCase(p.technologies[i].s), q)
              \/ Includes(ToLowerCase(JSOr(p.category, EmptyString).s), q))
       ELSE byCategory

\* the browse page is mounted on a table of at most MaxRows rows
InitBrowse ==
  /\ page = "none"
  /\ isEditing = FALSE
  /\ loading = FALSE
  /\ uploading = FALSE
  /\ imageUrl = EmptyString
  /\ imageUrls = <<>>
  /\ fetchPc = "none"
  /\ up = NoUpload
  /\ toast = ""
  /\ nUploads = 0
  /\ last = Step("mount", 0, NoData, <<>>)
  /\ fields = NoFields
  /\ db \in SeqUpTo(BrowseRows, MaxRows)
  /\ projects = <<>>
  /\ filteredProjects = <<>>
  /\ searchQuery = <<>>
  /\ selectedCategories = <<>>
  /\ browseLoading = TRUE
  /\ portfolioProjects = <<>>
  /\ portfolioLoading = FALSE
  /\ id = 0
  /\ project = NoProject
  /\ detailsLoading = FALSE
  /\ currentImageIndex = 0
  /\ route = "/browse-projects"

\* BrowseProjects.fetchProjects, the select succeeded; the filter effect runs
\* on the new projects
browseFetchProjects ==
  /\ route = "/browse-projects"
  /\ browseLoading
  /\ projects' = MappedProjects(db)
  /\ filteredProjects' =
       FilterProjects(projects', selectedCategories, searchQuery)
  /\ browseLoading' = FALSE
  /\ toast' = ""
  /\ last' = Step("BrowseProjects.fetchProjects", 0, NoData, <<>>)
  /\ UNCHANGED formVars
  /\ UNCHANGED <<db, searchQuery, selectedCategories, portfolioProjects,
                 portfolioLoading, id, project, detailsLoading,
                 currentImageIndex, route>>

\* BrowseProjects.fetchProjects, the select failed
browseFetchProjectsError ==
  /\ route = "/browse-projects"
  /\ browseLoading
  /\ browseLoading' = FALSE
  /\ toast' = "Error"
  /\ last' = Step("BrowseProjects.fetchProjects.catch", 0, NoData, <<>>)
  /\ UNCHANGED formVars
  /\ UNCHANGED <<db, projects, filteredProjects, searchQuery,
                 selectedCategories, portfolioProjects, portfolioLoading, id,
                 project, detailsLoading, currentImageIndex, route>>

\* onChange of the search box (and its clear button, which sets ""); the
\* filter effect runs on the new query
setSearchQuery(value) ==
  /\ route = "/browse-projects"
  /\ searchQuery' = value
  /\ filteredProjects' = FilterProjects(projects, selectedCategories, value)
  /\ toast' = ""
  /\ last' = Step("setSearchQuery", 0, NoData, <<>>)
  /\ UNCHANGED formVars
  /\ UNCHANGED <<db, projects, selectedCategories, browseLoading,
                 portfolioProjects, portfolioLoading, id, project,
                 detailsLoading, currentImageIndex, route>>

\* onClick of a category button: the name is removed if selected, appended
\* if not; the filter effect runs on the new selection
toggleCategory(cat) ==
  /\ route = "/browse-projects"
  /\ selectedCategories' =
       IF \E i \in 1..Len(selectedCategories) : selectedCategories[i] = cat
         THEN SelectSeq(selectedCategories, LAMBDA c : c # cat)
         ELSE Append(selectedCategories, cat)
  /\ filteredProjects' =
       FilterProjects(projects, selectedCategories', searchQuery)
  /\ toast' = ""
  /\ last' = Step("toggleCategory", 0, NoData, <<>>)
  /\ UNCHANGED formVars
  /\ UNCHANGED <<db, projects, searchQuery, browseLoading, portfolioProjects,
                 portfolioLoading, id, project, detailsLoading,
                 currentImageIndex, route>>

\* onClick of "Clear All Filters", rendered while a category is selected
clearCategories ==
  /\ route = "/browse-projects"
  /\ Len(selectedCategories) > 0
  /\ selectedCategories' = <<>>
  /\ filteredProjects' = FilterProjects(projects, <<>>, searchQuery)
  /\ toast' = ""
  /\ last' = Step("clearCategories", 0, NoData, <<>>)
  /\ UNCHANGED formVars
  /\ UNCHANGED <<db, projects, searchQuery, browseLoading, portfolioProjects,
                 portfolioLoading, id, project, detailsLoading,
                 currentImageIndex, route>>

NextBrowse ==
  \/ browseFetchProjects
  \/ browseFetchProjectsError
  \/ \E value \in Queries : setSearchQuery(value)
  \/ \E cat \in Categories : toggleCategory(cat)
  \/ clearCategories

SpecBrowse == InitBrowse /\ [][NextBrowse]_vars

\* ------------------------------------------------ Portfolio, ProjectDetails
\* the image list is the array as stored: no String(), no filter, no
\* fallback to image_url
DetailsUrlsRaw(data) ==
  IF IsArray(data.image_urls) THEN data.image_urls.items ELSE <<>>

\* fetchProjectDetails: imageUrls, built from the row that was read
DetailsUrls(data) ==
  IF TruthyJson(data.image_urls) /\ IsArray(data.image_urls)
       /\ Len(data.image_urls.items) > 0
    THEN SelectSeq(MapString(data.image_urls.items),
                   LAMBDA url : Truthy(url) /\ Trim(url.s) # <<>>)
    ELSE IF Truthy(data.image_url) /\ Trim(data.image_url.s) # <<>>
      THEN <<data.image_url>>
      ELSE <<>>

\* fetchProjectDetails: the object passed to setProject for row k
MapDetails(rows, k) ==
  [id |-> k,
   title |-> rows[k].title,
   description |-> rows[k].description,
   technologies |-> IF IsArray(rows[k].technologies)
                      THEN MapString(rows[k].technologies.items)
                      ELSE <<>>,
   image_url |-> rows[k].image_url,
   image_urls |-> DetailsUrls(rows[k]),
   category |-> JSOr(rows[k].category, Str(WebDevelopment))]

\* .eq('id', id).eq('published', true).single(): is there such a row?
SingleFound(rows, k) == k \in 1..Len(rows) /\ rows[k].published

\* the state BrowseProjects mounts with
BrowseMounts ==
  /\ projects' = <<>>
  /\ filteredProjects' = <<>>
  /\ searchQuery' = <<>>
  /\ selectedCategories' = <<>>
  /\ browseLoading' = TRUE

\* Portfolio.fetchProjects, the select succeeded
portfolioFetchProjects ==
  /\ route = "/"
  /\ portfolioLoading
  /\ portfolioProjects' =
       [i \in 1..Len(PublishedIds(db)) |-> MapProject(db, PublishedIds(db)[i])]
  /\ portfolioLoading' = FALSE
  /\ toast' = ""
  /\ last' = Step("Portfolio.fetchProjects", 0, NoData, <<>>)
  /\ UNCHANGED formVars
  /\ UNCHANGED <<db, projects, filteredProjects, searchQuery,
                 selectedCategories, browseLoading, id, project,
                 detailsLoading, currentImageIndex, route>>

\* Portfolio.fetchProjects, the select failed
portfolioFetchProjectsError ==
  /\ route = "/"
  /\ portfolioLoading
  /\ portfolioLoading' = FALSE
  /\ toast' = "Error"
  /\ last' = Step("Portfolio.fetchProjects.catch", 0, NoData, <<>>)
  /\ UNCHANGED formVars
  /\ UNCHANGED <<db, projects, filteredProjects, searchQuery,
                 selectedCategories, browseLoading, portfolioProjects, id,
                 project, detailsLoading, currentImageIndex, route>>

\* the route /project/k is entered from another page (a card of the list,
\* or a link to a row that is a draft or does not exist): ProjectDetails
\* mounts and its effect starts fetchProjectDetails
openDetails(k) ==
  /\ route \in {"/", "/browse-projects"}
  /\ route' = "/project/:id"
  /\ id' = k
  /\ project' = NoProject
  /\ detailsLoading' = TRUE
  /\ currentImageIndex' = 0
  /\ portfolioProjects' = <<>>
  /\ portfolioLoading' = FALSE
  /\ projects' = <<>>
  /\ filteredProjects' = <<>>
  /\ searchQuery' = <<>>
  /\ selectedCategories' = <<>>
  /\ browseLoading' = FALSE
  /\ toast' = ""
  /\ last' = Step("openDetails", k, NoData, <<>>)
  /\ UNCHANGED formVars
  /\ UNCHANGED db

\* the route parameter changes between two loads while ProjectDetails stays
\* mounted: the effect on [id] starts fetchProjectDetails again
changeId(k) ==
  /\ route = "/project/:id"
  /\ ~detailsLoading
  /\ k # id
  /\ id' = k
  /\ detailsLoading' = TRUE
  /\ toast' = ""
  /\ last' = Step("changeId", k, NoData, <<>>)
  /\ UNCHANGED formVars
  /\ UNCHANGED <<db, projects, filteredProjects, searchQuery,
                 selectedCategories, browseLoading, portfolioProjects,
                 portfolioLoading, project, currentImageIndex, route>>

\* fetchProjectDetails, catch and finally: toast, navigate to the browse page
detailsCatch ==
  /\ toast' = "Error"
  /\ route' = "/browse-projects"
  /\ detailsLoading' = FALSE
  /\ BrowseMounts
  /\ last' = Step("fetchProjectDetails.catch", id, NoData, <<>>)
  /\ UNCHANGED formVars
  /\ UNCHANGED <<db, portfolioProjects, portfolioLoading, id, project,
                 currentImageIndex>>

\* fetchProjectDetails, the select returned: a row, or the error of
\* single() when no published row has the id
fetchProjectDetails ==
  /\ route = "/project/:id"
  /\ detailsLoading
  /\ IF SingleFound(db, id)
       THEN /\ project' = MapDetails(db, id)
            /\ detailsLoading' = FALSE
            /\ toast' = ""
            /\ last' = Step("fetchProjectDetails", id, NoData, <<>>)
            /\ UNCHANGED formVars
            /\ UNCHANGED <<db, projects, filteredProjects, searchQuery,
                           selectedCategories, browseLoading,
                           portfolioProjects, portfolioLoading, id,
                           currentImageIndex, route>>
       ELSE detailsCatch

\* fetchProjectDetails, the select failed
fetchProjectDetailsError ==
  /\ route = "/project/:id"
  /\ detailsLoading
  /\ detailsCatch

\* is the carousel navigation rendered?
CarouselShown ==
  /\ route = "/project/:id"
  /\ ~detailsLoading
  /\ project # NoProject
  /\ Len(project.image_urls) > 1

\* the Previous button of the carousel
previousImage ==
  /\ CarouselShown
  /\ currentImageIndex' = IF currentImageIndex = 0
                            THEN Len(project.image_urls) - 1
                            ELSE currentImageIndex - 1
  /\ toast' = ""
  /\ last' = Step("previousImage", currentImageIndex, NoData, <<>>)
  /\ UNCHANGED formVars
  /\ UNCHANGED <<db, projects, filteredProjects, searchQuery,
                 selectedCategories, browseLoading, portfolioProjects,
                 portfolioLoading, id, project, detailsLoading, route>>

\* the Next button of the carousel; an index beyond the last image keeps
\* growing, which the guard on MaxDbLen caps
nextImage ==
  /\ CarouselShown
  /\ currentImageIndex <= MaxDbLen
  /\ currentImageIndex' = IF currentImageIndex = Len(project.image_urls) - 1
                            THEN 0
                            ELSE currentImageIndex + 1
  /\ toast' = ""
  /\ last' = Step("nextImage", currentImageIndex, NoData, <<>>)
  /\ UNCHANGED formVars
  /\ UNCHANGED <<db, projects, filteredProjects, searchQuery,
                 selectedCategories, browseLoading, portfolioProjects,
                 portfolioLoading, id, project, detailsLoading, route>>

\* the indicator button rendered for index
selectImage(index) ==
  /\ CarouselShown
  /\ index \in 0..(Len(project.image_urls) - 1)
  /\ currentImageIndex' = index
  /\ toast' = ""
  /\ last' = Step("selectImage", currentImageIndex, NoData, <<>>)
  /\ UNCHANGED formVars
  /\ UNCHANGED <<db, projects, filteredProjects, searchQuery,
                 selectedCategories, browseLoading, portfolioProjects,
                 portfolioLoading, id, project, detailsLoading, route>>

\* navigate('/'): Portfolio mounts
navigateHome ==
  /\ route \in {"/browse-projects", "/project/:id"}
  /\ route' = "/"
  /\ portfolioProjects' = <<>>
  /\ portfolioLoading' = TRUE
  /\ projects' = <<>>
  /\ filteredProjects' = <<>>
  /\ searchQuery' = <<>>
  /\ selectedCategories' = <<>>
  /\ browseLoading' = FALSE
  /\ project' = NoProject
  /\ detailsLoading' = FALSE
  /\ currentImageIndex' = 0
  /\ toast' = ""
  /\ last' = Step("navigate", 0, NoData, <<>>)
  /\ UNCHANGED formVars
  /\ UNCHANGED <<db, id>>

\* navigate('/browse-projects'): BrowseProjects mounts
navigateBrowse ==
  /\ route \in {"/", "/project/:id"}
  /\ route' = "/browse-projects"
  /\ BrowseMounts
  /\ portfolioProjects' = <<>>
  /\ portfolioLoading' = FALSE
  /\ project' = NoProject
  /\ detailsLoading' = FALSE
  /\ currentImageIndex' = 0
  /\ toast' = ""
  /\ last' = Step("navigate", 1, NoData, <<>>)
  /\ UNCHANGED formVars
  /\ UNCHANGED <<db, id>>

\* Dashboard.togglePublish on row k, by an administrator in another window
togglePublish(k) ==
  /\ k \in 1..Len(db)
  /\ db' = [db EXCEPT ![k].published = ~@]
  /\ toast' = ""
  /\ last' = Step("togglePublish", k, NoData, <<>>)
  /\ UNCHANGED formVars
  /\ UNCHANGED <<projects, filteredProjects, searchQuery, selectedCategories,
                 browseLoading, portfolioProjects, portfolioLoading, id,
                 project, detailsLoading, currentImageIndex, route>>

\* a visitor arrives on the home page; the table holds at most MaxRows rows
InitPublic ==
  /\ page = "none"
  /\ isEditing = FALSE
  /\ loading = FALSE
  /\ uploading = FALSE
  /\ imageUrl = EmptyString
  /\ imageUrls = <<>>
  /\ fetchPc = "none"
  /\ up = NoUpload
  /\ toast = ""
  /\ nUploads = 0
  /\ last = Step("mount", 0, NoData, <<>>)
  /\ fields = NoFields
  /\ db \in SeqUpTo(BrowseRows, MaxRows)
  /\ projects = <<>>
  /\ filteredProjects = <<>>
  /\ searchQuery = <<>>
  /\ selectedCategories = <<>>
  /\ browseLoading = FALSE
  /\ portfolioProjects = <<>>
  /\ portfolioLoading = TRUE
  /\ id = 0
  /\ project = NoProject
  /\ detailsLoading = FALSE
  /\ currentImageIndex = 0
  /\ route = "/"

\* the three public pages and the publish switch of the dashboard
NextPublic ==
  \/ portfolioFetchProjects
  \/ portfolioFetchProjectsError
  \/ browseFetchProjects
  \/ browseFetchProjectsError
  \/ \E k \in 1..(Len(db) + 1) : openDetails(k)
  \/ fetchProjectDetails
  \/ fetchProjectDetailsError
  \/ navigateHome
  \/ navigateBrowse
  \/ \E k \in 1..Len(db) : togglePublish(k)

SpecPublic == InitPublic /\ [][NextPublic]_vars

\* a published row with the two image columns given
ImageRow(image_url, image_urls) ==
  [title |-> Str(<<"x">>), description |-> Str(<<"x">>),
   technologies |-> NoTechnologies, category |-> Null, published |-> TRUE,
   image_url |-> image_url, image_urls |-> image_urls]

\* rows that give the carousel no image, one (the legacy image), two and
\* three (the last one stored as null and shown as "null")
CarouselRows ==
  {ImageRow(Null, [kind |-> "null", items |-> <<>>]),
   ImageRow(Str(<<"a">>), [kind |-> "null", items |-> <<>>]),
   ImageRow(Str(<<"a">>),
            [kind |-> "array", items |-> <<Str(<<"a">>), Str(<<"b">>)>>]),
   ImageRow(Str(<<"a">>),
            [kind |-> "array",
             items |-> <<Str(<<"a">>), Str(<<"b">>), Null>>])}

\* the detail page of one of the rows is opened
InitDetails ==
  /\ page = "none"
  /\ isEditing = FALSE
  /\ loading = FALSE
  /\ uploading = FALSE
  /\ imageUrl = EmptyString
  /\ imageUrls = <<>>
  /\ fetchPc = "none"
  /\ up = NoUpload
  /\ toast = ""
  /\ nUploads = 0
  /\ last = Step("mount", 0, NoData, <<>>)
  /\ fields = NoFields
  /\ db \in SeqUpTo(CarouselRows, MaxRows)
  /\ projects = <<>>
  /\ filteredProjects = <<>>
  /\ searchQuery = <<>>
  /\ selectedCategories = <<>>
  /\ browseLoading = FALSE
  /\ portfolioProjects = <<>>
  /\ portfolioLoading = FALSE
  /\ id \in 1..Len(db)
  /\ project = NoProject
  /\ detailsLoading = TRUE
  /\ currentImageIndex = 0
  /\ route = "/project/:id"

\* the detail page: its loads, its carousel buttons, and the way back to it
NextDetails ==
  \/ fetchProjectDetails
  \/ fetchProjectDetailsError
  \/ \E k \in 1..Len(db) : changeId(k)
  \/ \E k \in 1..Len(db) : openDetails(k)
  \/ previousImage
  \/ nextImage
  \/ \E index \in 0..(MaxDbLen - 1) : selectImage(index)

SpecDetails == InitDetails /\ [][NextDetails]_vars

\* the two image columns of a row, as select('*') returns them to the form
ImageFields(row) ==
  [image_url |-> row.image_url, image_urls |-> row.image_urls]

\* one published row, opened in the edit form and in the public detail page
InitReconcile ==
  /\ page = "form"
  /\ isEditing = TRUE
  /\ loading = FALSE
  /\ uploading = FALSE
  /\ imageUrl = EmptyString
  /\ imageUrls = <<>>
  /\ fetchPc = "pending"
  /\ up = NoUpload
  /\ toast = ""
  /\ nUploads = 0
  /\ last = Step("mount", 0, NoData, <<>>)
  /\ fields = NoFields
  /\ \E r \in Records : db = <<ImageRow(r.image_url, r.image_urls)>>
  /\ projects = <<>>
  /\ filteredProjects = <<>>
  /\ searchQuery = <<>>
  /\ selectedCategories = <<>>
  /\ browseLoading = FALSE
  /\ portfolioProjects = <<>>
  /\ portfolioLoading = FALSE
  /\ id = 1
  /\ project = NoProject
  /\ detailsLoading = TRUE
  /\ currentImageIndex = 0
  /\ route = "/project/:id"

NextReconcile ==
  \/ fetchProject(ImageFields(db[1]))
  \/ fetchProjectError
  \/ fetchProjectDetails
  \/ fetchProjectDetailsError

SpecReconcile == InitReconcile /\ [][NextReconcile]_vars

\* ---------------------------------------------------------------- claims
\* a string of whitespace characters only (the empty string included)
IsBlank(s) == \A i \in 1..Len(s) : s[i] = " "

Range(list) == {list[i] : i \in 1..Len(list)}

\* the entries of a list of strings that are not blank, in their order
NonBlankEntries(items) == SelectSeq(items, LAMBDA e : ~IsBlank(e.s))

AllStrings(items) == \A i \in 1..Len(items) : items[i].t = "string"

\* image_urls is missing, null or the empty array
ImagesEmptyOrAbsent(data) ==
  \/ data.image_urls.kind \in {"undefined", "null"}
  \/ data.image_urls.kind = "array" /\ data.image_urls.items = <<>>

\* C1: the pair written by a save has image_url equal to the first entry of
\* image_urls when image_urls is non-empty, and null when it is empty,
\* whatever sequence of load, upload, remove and set-as-main came before.
C1_WrittenLegacyIsFirst ==
  last.op = "handleSubmit.write" =>
    LET w == last.write.projectData
    IN /\ w.image_urls = imageUrls
       /\ Len(w.image_urls) > 0 => w.image_url = w.image_urls[1]
       /\ Len(w.image_urls) = 0 => w.image_url = Null

\* a save of a non-empty list while the imageUrl state holds something else
C1_Witness ==
  /\ last.op = "handleSubmit.write"
  /\ Len(imageUrls) > 1
  /\ imageUrl # imageUrls[1]
  /\ last.write.projectData.image_url = imageUrls[1]

\* C2: in every state of an edit session the imageUrl state equals the first
\* entry of imageUrls when the list is non-empty and is '' when it is empty.
C2_LegacyIsFirstInMemory ==
  /\ Len(imageUrls) > 0 => imageUrl = imageUrls[1]
  /\ Len(imageUrls) = 0 => imageUrl = EmptyString

\* C3: no step of an upload that fails changes the list or the primary
\* image, the failure is reported by the "Upload failed" toast, and no
\* reference uploaded by the batch is in the list.
C3_FailedAppendChangesNothing ==
  [][/\ last'.op \in {"handleImageUpload.start", "handleImageUpload.next",
                      "handleImageUpload.error"}
        => imageUrls' = imageUrls /\ imageUrl' = imageUrl
     /\ last'.op = "handleImageUpload.error"
        => /\ toast' = "Upload failed"
           /\ ~uploading'
           /\ Range(last'.uploaded) \cap Range(imageUrls') = {}]_vars

\* a batch failed after its first file was stored, the list is as it was
C3_Witness ==
  /\ last.op = "handleImageUpload.error"
  /\ Len(last.uploaded) = 1
  /\ imageUrls = <<Str(<<"a">>)>>
  /\ toast = "Upload failed"

\* C4: when an upload completes, the list is the list as it stands at that
\* moment followed by the new references.
C4_AppendExtendsCurrentList ==
  [][last'.op = "handleImageUpload.done"
       => imageUrls' = imageUrls \o last'.uploaded]_vars

\* C5: set-as-main of index i, 0 < i < length, moves entry i to the front,
\* shifts entries 0..i-1 right by one, leaves the entries after i in place
\* and makes the moved entry the primary image.
C5_PromoteRotates ==
  [][(last'.op = "handleSetMainImage" /\ last'.index > 0
        /\ last'.index < Len(imageUrls))
       => LET i == last'.index
          IN /\ Len(imageUrls') = Len(imageUrls)
             /\ imageUrls'[1] = imageUrls[i + 1]
             /\ \A k \in 1..i : imageUrls'[k + 1] = imageUrls[k]
             /\ \A k \in (i + 2)..Len(imageUrls) : imageUrls'[k] = imageUrls[k]
             /\ imageUrl' = imageUrls[i + 1]]_vars

\* set-as-main of the third of three different images: [a, x, y] -> [y, a, x]
C5_Witness ==
  /\ last.op = "handleSetMainImage"
  /\ last.index = 2
  /\ imageUrls = <<PublicUrl(2), Str(<<"a">>), PublicUrl(1)>>
  /\ imageUrl = PublicUrl(2)

\* C6: remove of index i, 0 <= i < length, deletes exactly entry i: the
\* list is one shorter, the entries before i stay and those after i move
\* left by one.
C6_RemoveDeletesOne ==
  [][(last'.op = "handleRemoveImage" /\ last'.index >= 0
        /\ last'.index < Len(imageUrls))
       => LET i == last'.index
          IN /\ Len(imageUrls') = Len(imageUrls) - 1
             /\ \A k \in 1..i : imageUrls'[k] = imageUrls[k]
             /\ \A k \in (i + 1)..Len(imageUrls') :
                  imageUrls'[k] = imageUrls[k + 1]]_vars

\* remove of the middle one of three: [a, x, y] -> [a, y]
C6_Witness ==
  /\ last.op = "handleRemoveImage"
  /\ last.index = 1
  /\ imageUrls = <<Str(<<"a">>), PublicUrl(2)>>
  /\ imageUrl = Str(<<"a">>)

\* C7: after a remove the primary image is the entry now first in the list,
\* and '' when the list became empty.
C7_RemoveSetsMain ==
  last.op = "handleRemoveImage" =>
    /\ Len(imageUrls) > 0 => imageUrl = imageUrls[1]
    /\ Len(imageUrls) = 0 => imageUrl = EmptyString

\* the main image was removed and the second one took its place
C7_Witness ==
  /\ last.op = "handleRemoveImage"
  /\ last.index = 0
  /\ imageUrls = <<PublicUrl(1)>>
  /\ imageUrl = PublicUrl(1)

\* C8: a record whose image_urls is a non-empty array of strings loads as
\* that array without its blank entries, in order, whatever image_url is.
C8_LoadFiltersBlanks ==
  (/\ last.op = "fetchProject"
   /\ last.data.image_urls.kind = "array"
   /\ last.data.image_urls.items # <<>>
   /\ AllStrings(last.data.image_urls.items))
    => imageUrls = NonBlankEntries(last.data.image_urls.items)

\* [a, ' ', b] next to the legacy image b loads as [a, b]
C8_Witness ==
  /\ last.op = "fetchProject"
  /\ last.data.image_urls.kind = "array"
  /\ last.data.image_urls.items = <<Str(<<"a">>), Str(<<" ">>), Str(<<"b">>)>>
  /\ last.data.image_url = Str(<<"b">>)
  /\ imageUrls = <<Str(<<"a">>), Str(<<"b">>)>>

\* C9 as stated: a record without images and with a non-empty image_url
\* loads as [image_url], and as [] when image_url is null or ''.
C9_NonEmptyLegacyIsWrapped ==
  (last.op = "fetchProject" /\ ImagesEmptyOrAbsent(last.data))
    => imageUrls = IF last.data.image_url.t = "string"
                        /\ last.data.image_url.s # <<>>
                     THEN <<last.data.image_url>>
                     ELSE <<>>

\* C9 amended: a record without images and with an image_url that is not
\* blank loads as [image_url]; it loads as [] when image_url is null, ''
\* or whitespace only, and so does every record neither field of which
\* holds a string that is not blank.
C9_NonBlankLegacyIsWrapped ==
  /\ (last.op = "fetchProject" /\ ImagesEmptyOrAbsent(last.data))
       => imageUrls = IF last.data.image_url.t = "string"
                           /\ ~IsBlank(last.data.image_url.s)
                        THEN <<last.data.image_url>>
                        ELSE <<>>
  /\ (/\ last.op = "fetchProject"
      /\ AllStrings(last.data.image_urls.items)
      /\ NonBlankEntries(last.data.image_urls.items) = <<>>
      /\ IsBlank(last.data.image_url.s))
       => imageUrls = <<>>

\* the empty array next to the legacy image a loads as [a]
C9_Witness ==
  /\ last.op = "fetchProject"
  /\ last.data.image_urls.kind = "array"
  /\ last.data.image_urls.items = <<>>
  /\ last.data.image_url = Str(<<"a">>)
  /\ imageUrls = <<Str(<<"a">>)>>

\* C10: a record that was read never ends the load in the error path, and
\* an image_urls that is missing, null or no array loads as the legacy
\* fallback does.
C10_LoadNeverFails ==
  last.op \in {"fetchProject", "fetchProject.catch"} =>
    /\ last.op = "fetchProject"
    /\ fetchPc = "done"
    /\ page = "form"
    /\ toast # "Error"
    /\ last.data.image_urls.kind # "array"
         => imageUrls = IF last.data.image_url.t = "string"
                             /\ ~IsBlank(last.data.image_url.s)
                          THEN <<last.data.image_url>>
                          ELSE <<>>

\* an image_urls that is no array, next to the legacy image a, loads as [a]
C10_Witness ==
  /\ last.op = "fetchProject"
  /\ last.data.image_urls.kind = "object"
  /\ last.data.image_url = Str(<<"a">>)
  /\ imageUrls = <<Str(<<"a">>)>>
  /\ page = "form"

\* C11: an upload that succeeds sets the list to the list the handler was
\* called on followed by the new references: one reference per file, in
\* the order the files were uploaded, the old entries at their positions.
C11_AppendAtEnd ==
  [][/\ last'.op = "handleImageUpload.done"
        => /\ imageUrls' = up.imageUrls \o last'.uploaded
           /\ Len(last'.uploaded) = up.files
           /\ SubSeq(last'.uploaded, 1, Len(up.uploadedUrls)) = up.uploadedUrls
           /\ \A k \in 1..Len(up.imageUrls) : imageUrls'[k] = up.imageUrls[k]
     /\ last'.op = "handleImageUpload.next"
        => /\ SubSeq(up'.uploadedUrls, 1, Len(up.uploadedUrls)) = up.uploadedUrls
           /\ up'.imageUrls = up.imageUrls
     /\ last'.op = "handleImageUpload.start"
        => up'.imageUrls = imageUrls /\ up'.uploadedUrls = <<>>]_vars

\* two files were appended to [a]: [a, x, y]
C11_Witness ==
  /\ last.op = "handleImageUpload.done"
  /\ last.uploaded = <<PublicUrl(1), PublicUrl(2)>>
  /\ imageUrls = <<Str(<<"a">>), PublicUrl(1), PublicUrl(2)>>

\* C12: an upload that succeeds on an empty list makes its first new
\* reference the main image: the first entry of the list and the image_url
\* a save writes; on a list that was not empty the main image stays the one
\* it was when the handler was called.
C12_AppendMain ==
  [][last'.op = "handleImageUpload.done"
       => /\ Len(last'.uploaded) > 0
          /\ Len(up.imageUrls) = 0
               => /\ imageUrls'[1] = last'.uploaded[1]
                  /\ ProjectData(imageUrls').image_url = last'.uploaded[1]
          /\ Len(up.imageUrls) > 0
               => /\ imageUrls'[1] = up.imageUrls[1]
                  /\ ProjectData(imageUrls').image_url = up.imageUrls[1]]_vars

\* two files were appended to the empty list of a new project: [x, y], x
C12_Witness ==
  /\ last.op = "handleImageUpload.done"
  /\ ~isEditing
  /\ imageUrls = <<PublicUrl(1), PublicUrl(2)>>
  /\ imageUrl = PublicUrl(1)

\* an index that is no position of the list, positions counted from 0
OutOfRange(index, list) == index < 0 \/ index >= Len(list)

\* C13: set-as-main with an index out of range fails: it does not report
\* success and does not change the list.
C13_PromoteOutOfRangeFails ==
  [][(last'.op = "handleSetMainImage" /\ OutOfRange(last'.index, imageUrls))
       => toast' # "Success" /\ imageUrls' = imageUrls]_vars

\* C14: remove with an index out of range ends in an error outcome.
C14_RemoveOutOfRangeFails ==
  [][(last'.op = "handleRemoveImage" /\ OutOfRange(last'.index, imageUrls))
       => toast' \in destructive]_vars

\* C15: remove with an index out of range leaves the list as it is: the
\* same entries in the same order, the same first entry and the same
\* image_url written by a save.
C15_RemoveOutOfRangeKeepsList ==
  [][(last'.op = "handleRemoveImage" /\ OutOfRange(last'.index, imageUrls))
       => /\ imageUrls' = imageUrls
          /\ ProjectData(imageUrls') = ProjectData(imageUrls)]_vars

\* remove of index 5 called on the three entries [a, b, a]
C15_Witness ==
  /\ last.op = "handleRemoveImage"
  /\ last.index = 5
  /\ imageUrls = <<Str(<<"a">>), Str(<<"b">>), Str(<<"a">>)>>

\* C16: set-as-main of index 0 changes neither the list nor the primary
\* image and reports no error, whatever ran before it.
C16_PromoteZeroIsNoOp ==
  [][(last'.op = "handleSetMainImage" /\ last'.index = 0)
       => /\ imageUrls' = imageUrls
          /\ imageUrl' = imageUrl
          /\ toast' \notin destructive]_vars

\* set-as-main of index 0 called on [b, a], whose primary image is b
C16_Witness ==
  /\ last.op = "handleSetMainImage"
  /\ last.index = 0
  /\ imageUrls = <<Str(<<"b">>), Str(<<"a">>)>>
  /\ imageUrl = Str(<<"b">>)

\* every entry of the list is a string with a character that is not
\* whitespace
AllNonBlankStrings ==
  \A k \in 1..Len(imageUrls) :
    imageUrls[k].t = "string" /\ Trim(imageUrls[k].s) # <<>>

\* no reference occurs at two positions of the list
AllUnique ==
  \A j, k \in 1..Len(imageUrls) : imageUrls[j] = imageUrls[k] => j = k

\* C17 as stated: in every state of an edit session the references of the
\* list are unique and each is a non-empty, non-whitespace string.
C17_UniqueNonBlank == AllUnique /\ AllNonBlankStrings

\* C17: in every state of an edit session each reference of the list is a
\* non-empty, non-whitespace string; the same reference may occur twice.
C17_NonBlank == AllNonBlankStrings

\* a loaded list with a repeated reference, after an upload and a
\* set-as-main
C17_Witness ==
  /\ last.op = "handleSetMainImage"
  /\ imageUrls = <<PublicUrl(1), Str(<<"a">>), Str(<<"a">>)>>

\* C18: the step logs in last.index how many files of the batch precede its
\* first bad file (type other than JPEG, PNG, WebP or GIF, or more than
\* 5MB).  A rejected batch shows the rejection, starts no transfer and leaves
\* the list as it is; a transfer starts only from a batch in which no file
\* is bad, and files are only transferred after such a start.
C18_ValidationBeforeTransfer ==
  [][/\ last'.op = "handleImageUpload.rejected"
          => (/\ toast' \in {"Invalid file type", "File too large"}
              /\ ~uploading'
              /\ up' = up
              /\ nUploads' = nUploads
              /\ imageUrls' = imageUrls
              /\ imageUrl' = imageUrl)
     /\ last'.op = "handleImageUpload.start"
          => (last'.index = up'.files /\ up'.uploadedUrls = <<>>)
     /\ (uploading' /\ ~uploading) => last'.op = "handleImageUpload.start"
     /\ (nUploads' # nUploads => uploading)]_vars

\* a batch rejected for its second file: the first one was valid
C18_Witness ==
  /\ last.op = "handleImageUpload.rejected"
  /\ last.index = 1
  /\ toast = "File too large"
  /\ ~uploading
  /\ nUploads = 0

\* C19: every write a save issues, insert or update, carries the columns
\* image_url and image_urls in the one projectData, image_urls being the
\* list in memory and image_url that list's first entry or null; a write is
\* issued by the save step only, as an update when editing and as an insert
\* otherwise.
C19_BothFieldsInOneWrite ==
  /\ last.write.method \in {"none", "insert", "update"}
  /\ last.write.method # "none" <=> last.op = "handleSubmit.write"
  /\ last.write.method # "none" =>
       /\ last.write.method = (IF isEditing THEN "update" ELSE "insert")
       /\ {"image_url", "image_urls"} \subseteq DOMAIN last.write.projectData
       /\ last.write.projectData.image_urls = imageUrls
       /\ last.write.projectData.image_url =
            (IF imageUrls = <<>> THEN Null ELSE Head(imageUrls))

\* an update that writes the list [a, u1] and its first entry a
C19_Witness ==
  /\ last.op = "handleSubmit.write"
  /\ last.write.method = "update"
  /\ last.write.projectData =
       [image_url |-> Str(<<"a">>),
        image_urls |-> <<Str(<<"a">>), PublicUrl(1)>>]

\* C20: the upload loop submits one file per pass and only while a call is
\* running; a successful pass stores one object and moves on to the next
\* file, so a completed call has made one pass per file; a failed pass shows
\* the error toast and ends the call, the failed file is not submitted again
\* and no later file of the batch is submitted.
C20_FailureEndsBatch ==
  [][/\ last'.op \in {"handleImageUpload.next", "handleImageUpload.done",
                      "handleImageUpload.error"}
          => (uploading /\ Len(up.uploadedUrls) < up.files)
     /\ last'.op = "handleImageUpload.next"
          => (/\ uploading'
              /\ up'.files = up.files
              /\ Len(up'.uploadedUrls) = Len(up.uploadedUrls) + 1
              /\ nUploads' = nUploads + 1)
     /\ last'.op = "handleImageUpload.done"
          => (/\ ~uploading'
              /\ Len(last'.uploaded) = up.files
              /\ nUploads' = nUploads + 1)
     /\ last'.op = "handleImageUpload.error"
          => (/\ toast' \in destructive
              /\ ~uploading'
              /\ up' = NoUpload
              /\ nUploads' = nUploads
              /\ last'.uploaded = up.uploadedUrls)]_vars

\* a batch on an empty list failed at its second file: one object stored,
\* the call over, the list still empty
C20_Witness ==
  /\ last.op = "handleImageUpload.error"
  /\ last.uploaded = <<PublicUrl(1)>>
  /\ nUploads = 1
  /\ ~uploading
  /\ imageUrls = <<>>
  /\ toast = "Upload failed"

\* does project p pass the category selection and the search query?
Shown(p) ==
  /\ \/ selectedCategories = <<>>
     \/ \E i \in 1..Len(selectedCategories) :
          selectedCategories[i] =
            (IF p.category \in {Null, EmptyString}
               THEN Str(WebDevelopment) ELSE p.category)
  /\ \/ IsBlank(searchQuery)
     \/ \E text \in {p.title.s, p.description.s, p.category.s}
                      \cup {p.technologies[i].s : i \in 1..Len(p.technologies)} :
          Includes(ToLowerCase(text), ToLowerCase(searchQuery))

\* C21: on the browse page filteredProjects is the subsequence of projects
\* that pass the category selection (category defaulting to Web
\* Development) and the search query (blank, or found lower-cased in the
\* title, the description, a technology or the category).
C21_FilteredIsSubsequence ==
  route = "/browse-projects" => filteredProjects = SelectSeq(projects, Shown)

\* two projects loaded, the query "AB" and a selected category keep the
\* second one only
C21_Witness ==
  /\ Len(projects) = 2
  /\ searchQuery = <<"A", "B">>
  /\ selectedCategories = <<Str(MobileApp), Str(WebDevelopment)>>
  /\ Len(filteredProjects) = 1
  /\ filteredProjects[1] = projects[2]

\* C22: a row a public page takes into its state was published in the table
\* when the page read it: the lists of the home and browse pages hold
\* published rows only, and the detail page shows a row only if it is
\* published; for a draft it shows the error and goes to the browse page.
\* The pages show nothing they did not read this way.
C22_OnlyPublishedShown ==
  [][/\ last'.op = "Portfolio.fetchProjects"
          => \A i \in 1..Len(portfolioProjects') :
               db[portfolioProjects'[i].id].published
     /\ last'.op = "BrowseProjects.fetchProjects"
          => (/\ \A i \in 1..Len(projects') : db[projects'[i].id].published
              /\ \A i \in 1..Len(filteredProjects') :
                   db[filteredProjects'[i].id].published)
     /\ last'.op = "fetchProjectDetails"
          => (id \in 1..Len(db) /\ db[id].published /\ project'.id = id)
     /\ (last'.op \in {"fetchProjectDetails", "fetchProjectDetails.catch"}
           /\ ~(id \in 1..Len(db) /\ db[id].published))
          => (project' = NoProject /\ route' = "/browse-projects"
              /\ toast' = "Error")
     /\ (portfolioProjects' # portfolioProjects /\ portfolioProjects' # <<>>)
          => last'.op = "Portfolio.fetchProjects"
     /\ (projects' # projects /\ projects' # <<>>)
          => last'.op = "BrowseProjects.fetchProjects"
     /\ (project' # project /\ project' # NoProject)
          => last'.op = "fetchProjectDetails"]_vars

\* the detail page of a draft opened: error toast, redirect, no project
C22_Witness ==
  /\ last.op = "fetchProjectDetails.catch"
  /\ last.index \in 1..Len(db)
  /\ ~db[last.index].published
  /\ route = "/browse-projects"
  /\ project = NoProject

\* C23: while the carousel of the detail page is displayed,
\* currentImageIndex is an index of the image list of the project shown.
C23_IndexInRange ==
  (/\ route = "/project/:id"
   /\ ~detailsLoading
   /\ project # NoProject
   /\ Len(project.image_urls) > 0)
    => (0 <= currentImageIndex
        /\ currentImageIndex < Len(project.image_urls))

\* how often x occurs in list
Count(list, x) == Cardinality({i \in 1..Len(list) : list[i] = x})

\* C24: set-as-main, called with any index, keeps the length of the list and
\* how often each reference occurs in it, and puts no undefined entry into
\* it.
C24_PromoteIsPermutation ==
  [][last'.op = "handleSetMainImage"
       => (/\ Len(imageUrls') = Len(imageUrls)
           /\ \A x \in Range(imageUrls) \cup Range(imageUrls') :
                Count(imageUrls', x) = Count(imageUrls, x)
           /\ Undefined \notin Range(imageUrls) =>
                Undefined \notin Range(imageUrls'))]_vars

\* C25: when a load or an upload completes, every reference that is in the
\* list at that moment is still in it afterwards: an upload that overlaps
\* the load of the edited record loses neither the loaded references nor
\* the uploaded ones, whichever of the two completes first.
C25_AppendDuringLoadKeepsAll ==
  [][last'.op \in {"fetchProject", "handleImageUpload.done"}
       => Range(imageUrls) \subseteq Range(imageUrls')]_vars

\* C26: while an upload is running no step starts another upload and no
\* step starts a save, and no save is running at any moment of an upload.
C26_NoSaveDuringAppend ==
  [][/\ uploading
          => last'.op \notin {"handleImageUpload.empty",
                              "handleImageUpload.rejected",
                              "handleImageUpload.start",
                              "handleSubmit.invalid", "handleSubmit.write"}
     /\ ~(uploading' /\ loading')]_vars

\* C27: every upload that set uploading resets it, and every save that set
\* loading resets it, as long as the form is mounted (the navigation after
\* a successful save or a failed load discards the form's state).
C27_BusyFlagsReset ==
  /\ uploading ~> (~uploading \/ page = "dashboard")
  /\ loading ~> (~loading \/ page = "dashboard")

C27_Witness ==
  /\ last.op \in {"handleImageUpload.error", "handleSubmit.error"}
  /\ page = "form"
  /\ ~uploading
  /\ ~loading
  /\ toast \in {"Upload failed", "Error"}
  /\ nUploads > 0

\* a record with no usable list and a non-blank legacy image
LegacyOnly(r) ==
  /\ ~(TruthyJson(r.image_urls) /\ IsArray(r.image_urls)
         /\ Len(r.image_urls.items) > 0)
  /\ Truthy(r.image_url)
  /\ Trim(r.image_url.s) # <<>>

\* C28: a save that directly follows the load of a record r writes a pair p
\* whose load gives the list r gave; loading p and saving again writes p;
\* a legacy-only r is written as the one-element list of its legacy image,
\* which stays the main image.
C28_LoadSaveRoundTrip ==
  [][(last.op = "fetchProject" /\ last'.op = "handleSubmit.write")
       => LET r == last.data
              p == last'.write.projectData
          IN /\ ~LoadThrows(Persisted(p))
             /\ LoadUrls(Persisted(p)) = LoadUrls(r)
             /\ Write(isEditing, LoadUrls(Persisted(p))).projectData = p
             /\ LegacyOnly(r)
                  => p = [image_url |-> r.image_url,
                          image_urls |-> <<r.image_url>>]]_vars

C28_Witness ==
  /\ last.op = "handleSubmit.write"
  /\ fetchPc = "done"
  /\ loading
  /\ imageUrl = Str(<<"b">>)
  /\ last.write.projectData
       = [image_url |-> Str(<<"a">>),
          image_urls |-> <<Str(<<"a">>), Str(<<"b">>)>>]

\* C29: once the edit form and the detail page have both loaded the same
\* row, the carousel's image list is the form's image list, element by
\* element.
C29_SameReconciliation ==
  (page = "form" /\ fetchPc = "done" /\ project # NoProject)
    => project.image_urls = imageUrls

C29_Witness ==
  /\ page = "form"
  /\ fetchPc = "done"
  /\ project # NoProject
  /\ project.image_url = Str(<<"a">>)
  /\ project.image_urls = <<Str(<<"b">>), JSString(Null)>>
  /\ imageUrls = <<Str(<<"b">>), JSString(Null)>>

\* C30: a submit whose fields fail the schema issues no write and starts no
\* save; a submit that issues a write had valid fields; a failed write
\* leaves the image list, the main image and the text fields as they are,
\* stays on the form and ends the save, and when it directly follows the
\* submit the same fields pass the schema and give the same write again.
C30_RejectedOrFailedSave ==
  [][/\ last'.op = "handleSubmit.invalid"
          => /\ ~SchemaOk(fields)
             /\ last'.write = NoWrite
             /\ loading' = loading
             /\ page' = page
     /\ last'.op = "handleSubmit.write" => SchemaOk(fields)
     /\ last'.op = "handleSubmit.error"
          => /\ imageUrls' = imageUrls
             /\ imageUrl' = imageUrl
             /\ fields' = fields
             /\ page' = "form"
             /\ ~loading'
             /\ last.op = "handleSubmit.write"
                  => /\ SchemaOk(fields')
                     /\ Write(isEditing', imageUrls') = last.write]_vars

C30_Witness ==
  /\ last.op = "handleSubmit.error"
  /\ page = "form"
  /\ ~loading
  /\ ~uploading
  /\ SchemaOk(fields)
  /\ Len(imageUrls) = 2

====
